---- MODULE Spec2Model ----
(***************************************************************************)
(* Model of the MTF/BLK token normaliser                                   *)
(* (scripts/megameklab-conversion/enum_mappings.py), of the terminology    *)
(* fixer (openspec/scripts/fix_terminology.py) and of the spec-coverage    *)
(* report (full_spec_analysis.py).  Each program has its own variables and *)
(* its own specification; the variables of the other programs rest.       *)
(*                                                                         *)
(* The normaliser is a library of pure functions over strings and integer  *)
(* years.  Strings are TLA+ strings; Python's str methods are operators    *)
(* defined character by character.  A caller holds one argument (value or  *)
(* year) and applies the mapping functions to it; the result of the last   *)
(* call is kept in result.                                                 *)
(***************************************************************************)
EXTENDS Integers, Sequences, FiniteSets, TLC

VARIABLES
    value,      \* the str argument handed to the string mapping functions
    year,       \* the int argument handed to map_year_to_era
    fn,         \* name of the function called last ("none" before any call)
    result,     \* what that call returned (KeyError if it raised)
    model,      \* the second str argument of generate_id_from_name
    tables,     \* the module-level dicts as the interpreter holds them
    calls,      \* per concurrent caller, the call it is inside of (Idle if none)
    returned,   \* the calls that have returned so far, with what they returned
    \* fix_terminology.py
    dry_run,            \* TerminologyFixer.dry_run
    changes,            \* TerminologyFixer.changes
    disk,               \* the files on disk: path -> content
    pc,                 \* where process_file stands ("idle" outside of it)
    file_path,          \* process_file's argument
    original_content,   \* process_file's local of that name
    modified_content,   \* process_file's local of that name
    process_file_result,\* what the last process_file returned ("none" before)
    \* full_spec_analysis.py
    specs_dir,          \* the spec directories: name -> content of spec.md
    src_files,          \* the .ts files under src: records of name and parent
    specs,              \* the dict specs
    by_status,          \* the dict by_status
    by_category,        \* the dict by_category
    phase,              \* which loop of the script runs
    pending             \* the names the running loop has still to visit

normaliserVars == <<value, year, fn, result, model, tables, calls, returned>>
fixerVars == <<dry_run, changes, disk, pc, file_path, original_content,
               modified_content, process_file_result>>
reportVars == <<specs_dir, src_files, specs, by_status, by_category, phase, pending>>

vars == <<normaliserVars, fixerVars, reportVars>>

\* the fixer's variables while another program runs
FixerIdle ==
    /\ dry_run = FALSE
    /\ changes = <<>>
    /\ disk = <<>>
    /\ pc = "idle"
    /\ file_path = ""
    /\ original_content = ""
    /\ modified_content = ""
    /\ process_file_result = "none"

\* the report's variables while another program runs
ReportIdle ==
    /\ specs_dir = <<>>
    /\ src_files = {}
    /\ specs = <<>>
    /\ by_status = <<>>
    /\ by_category = <<>>
    /\ phase = "done"
    /\ pending = <<>>

-----------------------------------------------------------------------------
(* Python str primitives                                                   *)

LowerLetters == "abcdefghijklmnopqrstuvwxyz"
UpperLetters == "ABCDEFGHIJKLMNOPQRSTUVWXYZ"
Digits == "0123456789"
Whitespace == " \t\n"

\* s[i-1] of Python, as a one-character string
CharAt(s, i) == SubSeq(s, i, i)

CharSet(s) == {CharAt(s, i) : i \in 1..Len(s)}

IndexIn(c, s) == CHOOSE i \in 1..Len(s) : CharAt(s, i) = c

\* str.isspace / str.isdigit / cased-ness of one character
isspace(c) == c \in CharSet(Whitespace)
isdigit(c) == c \in CharSet(Digits)
islower(c) == c \in CharSet(LowerLetters)
isupper(c) == c \in CharSet(UpperLetters)
iscased(c) == islower(c) \/ isupper(c)

upperChar(c) == IF islower(c) THEN CharAt(UpperLetters, IndexIn(c, LowerLetters)) ELSE c
lowerChar(c) == IF isupper(c) THEN CharAt(LowerLetters, IndexIn(c, UpperLetters)) ELSE c

\* str.upper()
RECURSIVE upper(_)
upper(s) == IF s = "" THEN "" ELSE upperChar(CharAt(s, 1)) \o upper(SubSeq(s, 2, Len(s)))

\* str.lower()
RECURSIVE lower(_)
lower(s) == IF s = "" THEN "" ELSE lowerChar(CharAt(s, 1)) \o lower(SubSeq(s, 2, Len(s)))

\* str.title(): a cased character is upper-cased when the character before
\* it is uncased (or there is none) and lower-cased otherwise
RECURSIVE titleFrom(_, _)
titleFrom(s, prevCased) ==
    IF s = "" THEN ""
    ELSE LET c == CharAt(s, 1)
         IN  (IF prevCased THEN lowerChar(c) ELSE upperChar(c))
                 \o titleFrom(SubSeq(s, 2, Len(s)), iscased(c))

title(s) == titleFrom(s, FALSE)

\* str.lstrip() / str.rstrip() / str.strip() with no argument
RECURSIVE lstrip(_)
lstrip(s) == IF s # "" /\ isspace(CharAt(s, 1)) THEN lstrip(SubSeq(s, 2, Len(s))) ELSE s

RECURSIVE rstrip(_)
rstrip(s) == IF s # "" /\ isspace(CharAt(s, Len(s))) THEN rstrip(SubSeq(s, 1, Len(s) - 1)) ELSE s

\* strip() that trims the left end only
strip_left_only(s) == lstrip(s)

strip(s) == rstrip(lstrip(s))

\* sub in s
Contains(s, sub) == \E i \in 1..(Len(s) - Len(sub) + 1) : SubSeq(s, i, i + Len(sub) - 1) = sub

\* s.replace(old, new) for a one-character old
RECURSIVE replaceChar(_, _, _)
replaceChar(s, old, new) ==
    IF s = "" THEN ""
    ELSE (IF CharAt(s, 1) = old THEN new ELSE CharAt(s, 1))
             \o replaceChar(SubSeq(s, 2, Len(s)), old, new)

\* s.replace(old, new) for a non-empty old: occurrences are replaced from the
\* left and do not overlap
RECURSIVE replace(_, _, _)
replace(s, old, new) ==
    IF Len(s) < Len(old) THEN s
    ELSE IF SubSeq(s, 1, Len(old)) = old
         THEN new \o replace(SubSeq(s, Len(old) + 1, Len(s)), old, new)
         ELSE CharAt(s, 1) \o replace(SubSeq(s, 2, Len(s)), old, new)

\* s.strip(chars) for a one-character chars
RECURSIVE stripChar(_, _)
stripChar(s, c) ==
    IF s # "" /\ CharAt(s, 1) = c THEN stripChar(SubSeq(s, 2, Len(s)), c)
    ELSE IF s # "" /\ CharAt(s, Len(s)) = c THEN stripChar(SubSeq(s, 1, Len(s) - 1), c)
    ELSE s

\* The outcome of a call that raised KeyError instead of returning
KeyError == "<KeyError>"

\* d[k]: raises KeyError when k is not a key
Subscript(d, k) == IF k \in DOMAIN d THEN d[k] ELSE KeyError

\* d.get(k, default)
Get(d, k, default) == IF k \in DOMAIN d THEN d[k] ELSE default

\* set(d.values())
Values(d) == {d[k] : k \in DOMAIN d}

-----------------------------------------------------------------------------
(* Alias tables                                                            *)

TECH_BASE_MAP ==
       ("Inner Sphere" :> "INNER_SPHERE")
    @@ ("IS" :> "INNER_SPHERE")
    @@ ("IS Level 1" :> "INNER_SPHERE")
    @@ ("IS Level 2" :> "INNER_SPHERE")
    @@ ("IS Level 3" :> "INNER_SPHERE")
    @@ ("IS Level 4" :> "INNER_SPHERE")
    @@ ("Clan" :> "CLAN")
    @@ ("CL" :> "CLAN")
    @@ ("Clan Level 2" :> "CLAN")
    @@ ("Clan Level 3" :> "CLAN")
    @@ ("Mixed" :> "MIXED")
    @@ ("Mixed (IS Chassis)" :> "MIXED")
    @@ ("Mixed (Clan Chassis)" :> "MIXED")
    @@ ("Both" :> "BOTH")
    @@ ("0" :> "INNER_SPHERE")
    @@ ("1" :> "CLAN")
    @@ ("2" :> "MIXED")

RULES_LEVEL_MAP ==
       ("0" :> "INTRODUCTORY")
    @@ ("1" :> "STANDARD")
    @@ ("2" :> "ADVANCED")
    @@ ("3" :> "EXPERIMENTAL")
    @@ ("4" :> "UNOFFICIAL")
    @@ ("Introductory" :> "INTRODUCTORY")
    @@ ("Standard" :> "STANDARD")
    @@ ("Advanced" :> "ADVANCED")
    @@ ("Experimental" :> "EXPERIMENTAL")
    @@ ("Unofficial" :> "UNOFFICIAL")
    @@ ("IS Level 1" :> "INTRODUCTORY")
    @@ ("IS Level 2" :> "STANDARD")
    @@ ("IS Level 3" :> "ADVANCED")
    @@ ("IS Level 4" :> "EXPERIMENTAL")
    @@ ("Clan Level 2" :> "STANDARD")
    @@ ("Clan Level 3" :> "ADVANCED")

ENGINE_TYPE_MAP ==
       ("Fusion Engine" :> "FUSION")
    @@ ("Fusion Engine(IS)" :> "FUSION")
    @@ ("Fusion Engine (IS)" :> "FUSION")
    @@ ("Fusion" :> "FUSION")
    @@ ("Standard Fusion" :> "FUSION")
    @@ ("XL Engine" :> "XL")
    @@ ("XL Engine(IS)" :> "XL")
    @@ ("XL Engine (IS)" :> "XL")
    @@ ("XL Fusion Engine" :> "XL")
    @@ ("Extra-Light Engine" :> "XL")
    @@ ("XL Engine(Clan)" :> "CLAN_XL")
    @@ ("XL Engine (Clan)" :> "CLAN_XL")
    @@ ("Clan XL Engine" :> "CLAN_XL")
    @@ ("Light Engine" :> "LIGHT")
    @@ ("Light Engine(IS)" :> "LIGHT")
    @@ ("Light Fusion Engine" :> "LIGHT")
    @@ ("Compact Engine" :> "COMPACT")
    @@ ("Compact Fusion Engine" :> "COMPACT")
    @@ ("XXL Engine" :> "XXL")
    @@ ("XXL Engine(IS)" :> "XXL")
    @@ ("XXL Engine(Clan)" :> "CLAN_XXL")
    @@ ("ICE Engine" :> "ICE")
    @@ ("ICE" :> "ICE")
    @@ ("Internal Combustion Engine" :> "ICE")
    @@ ("Fuel Cell Engine" :> "FUEL_CELL")
    @@ ("Fuel Cell" :> "FUEL_CELL")
    @@ ("Fuel-Cell Engine" :> "FUEL_CELL")
    @@ ("Fission Engine" :> "FISSION")
    @@ ("Fission" :> "FISSION")
    @@ ("0" :> "FUSION")
    @@ ("1" :> "XL")
    @@ ("2" :> "LIGHT")
    @@ ("3" :> "COMPACT")
    @@ ("4" :> "CLAN_XL")
    @@ ("5" :> "XXL")

GYRO_TYPE_MAP ==
       ("Standard Gyro" :> "STANDARD")
    @@ ("Standard" :> "STANDARD")
    @@ ("XL Gyro" :> "XL")
    @@ ("Extra-Light Gyro" :> "XL")
    @@ ("Compact Gyro" :> "COMPACT")
    @@ ("Heavy Duty Gyro" :> "HEAVY_DUTY")
    @@ ("Heavy-Duty Gyro" :> "HEAVY_DUTY")
    @@ ("Superheavy Gyro" :> "SUPERHEAVY")
    @@ ("Super Heavy Gyro" :> "SUPERHEAVY")
    @@ ("None" :> "NONE")
    @@ ("0" :> "STANDARD")
    @@ ("1" :> "XL")
    @@ ("2" :> "COMPACT")
    @@ ("3" :> "HEAVY_DUTY")
    @@ ("4" :> "SUPERHEAVY")

COCKPIT_TYPE_MAP ==
       ("Standard Cockpit" :> "STANDARD")
    @@ ("Standard" :> "STANDARD")
    @@ ("Small Cockpit" :> "SMALL")
    @@ ("Small" :> "SMALL")
    @@ ("Command Console" :> "COMMAND_CONSOLE")
    @@ ("Torso-Mounted Cockpit" :> "TORSO_MOUNTED")
    @@ ("Torso Cockpit" :> "TORSO_MOUNTED")
    @@ ("Primitive Cockpit" :> "PRIMITIVE")
    @@ ("Primitive" :> "PRIMITIVE")
    @@ ("Industrial Cockpit" :> "INDUSTRIAL")
    @@ ("Industrial" :> "INDUSTRIAL")
    @@ ("Primitive Industrial Cockpit" :> "PRIMITIVE_INDUSTRIAL")
    @@ ("Primitive Industrial" :> "PRIMITIVE_INDUSTRIAL")
    @@ ("Superheavy Industrial Cockpit" :> "SUPERHEAVY_INDUSTRIAL")
    @@ ("Tripod Industrial Cockpit" :> "TRIPOD_INDUSTRIAL")
    @@ ("Superheavy Tripod Industrial Cockpit" :> "SUPERHEAVY_TRIPOD_INDUSTRIAL")
    @@ ("Superheavy Cockpit" :> "SUPERHEAVY")
    @@ ("Superheavy Tripod Cockpit" :> "SUPERHEAVY_TRIPOD")
    @@ ("Interface Cockpit" :> "INTERFACE")
    @@ ("QuadVee Cockpit" :> "QUADVEE")

STRUCTURE_TYPE_MAP ==
       ("Standard" :> "STANDARD")
    @@ ("IS Standard" :> "STANDARD")
    @@ ("Standard Structure" :> "STANDARD")
    @@ ("Endo Steel" :> "ENDO_STEEL")
    @@ ("IS Endo Steel" :> "ENDO_STEEL")
    @@ ("Endo-Steel" :> "ENDO_STEEL")
    @@ ("Clan Endo Steel" :> "ENDO_STEEL_CLAN")
    @@ ("Clan Endo-Steel" :> "ENDO_STEEL_CLAN")
    @@ ("Endo-Composite" :> "ENDO_COMPOSITE")
    @@ ("Endo Composite" :> "ENDO_COMPOSITE")
    @@ ("Reinforced" :> "REINFORCED")
    @@ ("Reinforced Structure" :> "REINFORCED")
    @@ ("Composite" :> "COMPOSITE")
    @@ ("Composite Structure" :> "COMPOSITE")
    @@ ("Industrial" :> "INDUSTRIAL")
    @@ ("Industrial Structure" :> "INDUSTRIAL")

ARMOR_TYPE_MAP ==
       ("Standard" :> "STANDARD")
    @@ ("Standard Armor" :> "STANDARD")
    @@ ("Standard(Inner Sphere)" :> "STANDARD")
    @@ ("Ferro-Fibrous" :> "FERRO_FIBROUS")
    @@ ("Ferro-Fibrous Armor" :> "FERRO_FIBROUS")
    @@ ("Ferro-Fibrous(Inner Sphere)" :> "FERRO_FIBROUS")
    @@ ("IS Ferro-Fibrous" :> "FERRO_FIBROUS")
    @@ ("Clan Ferro-Fibrous" :> "FERRO_FIBROUS_CLAN")
    @@ ("Ferro-Fibrous(Clan)" :> "FERRO_FIBROUS_CLAN")
    @@ ("Light Ferro-Fibrous" :> "LIGHT_FERRO_FIBROUS")
    @@ ("Light Ferro-Fibrous Armor" :> "LIGHT_FERRO_FIBROUS")
    @@ ("Heavy Ferro-Fibrous" :> "HEAVY_FERRO_FIBROUS")
    @@ ("Heavy Ferro-Fibrous Armor" :> "HEAVY_FERRO_FIBROUS")
    @@ ("Stealth Armor" :> "STEALTH")
    @@ ("Stealth" :> "STEALTH")
    @@ ("Reactive Armor" :> "REACTIVE")
    @@ ("Reactive" :> "REACTIVE")
    @@ ("Reflective Armor" :> "REFLECTIVE")
    @@ ("Reflective" :> "REFLECTIVE")
    @@ ("Laser-Reflective" :> "REFLECTIVE")
    @@ ("Hardened Armor" :> "HARDENED")
    @@ ("Hardened" :> "HARDENED")
    @@ ("Primitive Armor" :> "PRIMITIVE")
    @@ ("Primitive" :> "PRIMITIVE")
    @@ ("Industrial Armor" :> "INDUSTRIAL")
    @@ ("Industrial" :> "INDUSTRIAL")
    @@ ("Commercial" :> "COMMERCIAL")
    @@ ("Commercial Armor" :> "COMMERCIAL")
    @@ ("Heavy Industrial" :> "HEAVY_INDUSTRIAL")
    @@ ("Heavy Industrial Armor" :> "HEAVY_INDUSTRIAL")
    @@ ("Impact-Resistant" :> "IMPACT_RESISTANT")
    @@ ("Impact-Resistant Armor" :> "IMPACT_RESISTANT")

HEAT_SINK_TYPE_MAP ==
       ("Single" :> "SINGLE")
    @@ ("Single Heat Sink" :> "SINGLE")
    @@ ("Single Heat Sinks" :> "SINGLE")
    @@ ("Double" :> "DOUBLE")
    @@ ("Double Heat Sink" :> "DOUBLE")
    @@ ("Double Heat Sinks" :> "DOUBLE")
    @@ ("Double (IS)" :> "DOUBLE")
    @@ ("Double (Clan)" :> "DOUBLE_CLAN")
    @@ ("Clan Double Heat Sink" :> "DOUBLE_CLAN")
    @@ ("Clan Double" :> "DOUBLE_CLAN")
    @@ ("Compact" :> "COMPACT")
    @@ ("Compact Heat Sink" :> "COMPACT")
    @@ ("Laser" :> "LASER")
    @@ ("Laser Heat Sink" :> "LASER")

MECH_LOCATION_MAP ==
       ("Head" :> "HEAD")
    @@ ("HD" :> "HEAD")
    @@ ("Center Torso" :> "CENTER_TORSO")
    @@ ("CT" :> "CENTER_TORSO")
    @@ ("Left Torso" :> "LEFT_TORSO")
    @@ ("LT" :> "LEFT_TORSO")
    @@ ("Right Torso" :> "RIGHT_TORSO")
    @@ ("RT" :> "RIGHT_TORSO")
    @@ ("Left Arm" :> "LEFT_ARM")
    @@ ("LA" :> "LEFT_ARM")
    @@ ("Right Arm" :> "RIGHT_ARM")
    @@ ("RA" :> "RIGHT_ARM")
    @@ ("Left Leg" :> "LEFT_LEG")
    @@ ("LL" :> "LEFT_LEG")
    @@ ("Right Leg" :> "RIGHT_LEG")
    @@ ("RL" :> "RIGHT_LEG")
    @@ ("Center Torso (Rear)" :> "CENTER_TORSO_REAR")
    @@ ("CTR" :> "CENTER_TORSO_REAR")
    @@ ("RTC" :> "CENTER_TORSO_REAR")
    @@ ("Left Torso (Rear)" :> "LEFT_TORSO_REAR")
    @@ ("LTR" :> "LEFT_TORSO_REAR")
    @@ ("RTL" :> "LEFT_TORSO_REAR")
    @@ ("Right Torso (Rear)" :> "RIGHT_TORSO_REAR")
    @@ ("RTR" :> "RIGHT_TORSO_REAR")
    @@ ("Front Left Leg" :> "FRONT_LEFT_LEG")
    @@ ("FLL" :> "FRONT_LEFT_LEG")
    @@ ("Front Right Leg" :> "FRONT_RIGHT_LEG")
    @@ ("FRL" :> "FRONT_RIGHT_LEG")
    @@ ("Rear Left Leg" :> "REAR_LEFT_LEG")
    @@ ("RLL" :> "REAR_LEFT_LEG")
    @@ ("Rear Right Leg" :> "REAR_RIGHT_LEG")
    @@ ("RRL" :> "REAR_RIGHT_LEG")

ARMOR_LOCATION_KEY_MAP ==
       ("la armor" :> "LEFT_ARM")
    @@ ("ra armor" :> "RIGHT_ARM")
    @@ ("lt armor" :> "LEFT_TORSO")
    @@ ("rt armor" :> "RIGHT_TORSO")
    @@ ("ct armor" :> "CENTER_TORSO")
    @@ ("hd armor" :> "HEAD")
    @@ ("ll armor" :> "LEFT_LEG")
    @@ ("rl armor" :> "RIGHT_LEG")
    @@ ("rtl armor" :> "LEFT_TORSO_REAR")
    @@ ("rtr armor" :> "RIGHT_TORSO_REAR")
    @@ ("rtc armor" :> "CENTER_TORSO_REAR")
    @@ ("la" :> "LEFT_ARM")
    @@ ("ra" :> "RIGHT_ARM")
    @@ ("lt" :> "LEFT_TORSO")
    @@ ("rt" :> "RIGHT_TORSO")
    @@ ("ct" :> "CENTER_TORSO")
    @@ ("hd" :> "HEAD")
    @@ ("ll" :> "LEFT_LEG")
    @@ ("rl" :> "RIGHT_LEG")
    @@ ("rtl" :> "LEFT_TORSO_REAR")
    @@ ("rtr" :> "RIGHT_TORSO_REAR")
    @@ ("rtc" :> "CENTER_TORSO_REAR")

MECH_CONFIG_MAP ==
       ("Biped" :> "Biped")
    @@ ("Quad" :> "Quad")
    @@ ("Tripod" :> "Tripod")
    @@ ("LAM" :> "LAM")
    @@ ("QuadVee" :> "QuadVee")
    @@ ("Biped Omnimech" :> "Biped")
    @@ ("Quad Omnimech" :> "Quad")

UNIT_TYPE_MAP ==
       ("BattleMech" :> "BattleMech")
    @@ ("Mech" :> "BattleMech")
    @@ ("Biped" :> "BattleMech")
    @@ ("Quad" :> "BattleMech")
    @@ ("OmniMech" :> "OmniMech")
    @@ ("IndustrialMech" :> "IndustrialMech")
    @@ ("ProtoMech" :> "ProtoMech")
    @@ ("Tank" :> "Vehicle")
    @@ ("Vehicle" :> "Vehicle")
    @@ ("VTOL" :> "VTOL")
    @@ ("Aerospace" :> "Aerospace")
    @@ ("AeroSpaceFighter" :> "Aerospace")
    @@ ("Conventional Fighter" :> "Conventional Fighter")
    @@ ("ConvFighter" :> "Conventional Fighter")
    @@ ("Small Craft" :> "Small Craft")
    @@ ("SmallCraft" :> "Small Craft")
    @@ ("DropShip" :> "DropShip")
    @@ ("Dropship" :> "DropShip")
    @@ ("JumpShip" :> "JumpShip")
    @@ ("Jumpship" :> "JumpShip")
    @@ ("WarShip" :> "WarShip")
    @@ ("Warship" :> "WarShip")
    @@ ("Space Station" :> "Space Station")
    @@ ("SpaceStation" :> "Space Station")
    @@ ("Infantry" :> "Infantry")
    @@ ("BattleArmor" :> "Battle Armor")
    @@ ("Battle Armor" :> "Battle Armor")
    @@ ("Support Vehicle" :> "Support Vehicle")
    @@ ("SupportVehicle" :> "Support Vehicle")

\* ERA_MAP holds comments only
ERA_MAP == <<>>

\* the module namespace once the module is loaded
LoadedTables ==
    [TECH_BASE_MAP |-> TECH_BASE_MAP, RULES_LEVEL_MAP |-> RULES_LEVEL_MAP,
     ENGINE_TYPE_MAP |-> ENGINE_TYPE_MAP, GYRO_TYPE_MAP |-> GYRO_TYPE_MAP,
     COCKPIT_TYPE_MAP |-> COCKPIT_TYPE_MAP, STRUCTURE_TYPE_MAP |-> STRUCTURE_TYPE_MAP,
     ARMOR_TYPE_MAP |-> ARMOR_TYPE_MAP, HEAT_SINK_TYPE_MAP |-> HEAT_SINK_TYPE_MAP,
     MECH_LOCATION_MAP |-> MECH_LOCATION_MAP,
     ARMOR_LOCATION_KEY_MAP |-> ARMOR_LOCATION_KEY_MAP,
     MECH_CONFIG_MAP |-> MECH_CONFIG_MAP, ERA_MAP |-> ERA_MAP,
     UNIT_TYPE_MAP |-> UNIT_TYPE_MAP]

-----------------------------------------------------------------------------
(* Mapping functions                                                       *)

map_tech_base(v) ==
    LET clean == strip(v)
    IN  Get(tables.TECH_BASE_MAP, clean, Get(tables.TECH_BASE_MAP, title(clean), "INNER_SPHERE"))

\* rules_level_scan with RULES_LEVEL_MAP[char] in place of .get(char, "STANDARD")
RECURSIVE rules_level_scan_subscript(_)
rules_level_scan_subscript(clean) ==
    IF clean = "" THEN "STANDARD"
    ELSE IF isdigit(CharAt(clean, 1))
         THEN Subscript(tables.RULES_LEVEL_MAP, CharAt(clean, 1))
         ELSE rules_level_scan_subscript(SubSeq(clean, 2, Len(clean)))

\* the loop "for char in clean" of map_rules_level and the return after it
RECURSIVE rules_level_scan(_)
rules_level_scan(clean) ==
    IF clean = "" THEN "STANDARD"
    ELSE IF isdigit(CharAt(clean, 1))
         THEN Get(tables.RULES_LEVEL_MAP, CharAt(clean, 1), "STANDARD")
         ELSE rules_level_scan(SubSeq(clean, 2, Len(clean)))

map_rules_level(v) ==
    LET clean == strip(v)
    IN  IF clean \in DOMAIN tables.RULES_LEVEL_MAP
        THEN Subscript(tables.RULES_LEVEL_MAP, clean)
        ELSE rules_level_scan(clean)

\* engine_fallback ending in the default of the other equipment categories
engine_fallback_standard(up) ==
    IF Contains(up, "XXL") THEN "XXL"
    ELSE IF Contains(up, "XL") /\ Contains(up, "CLAN") THEN "CLAN_XL"
    ELSE IF Contains(up, "XL") THEN "XL"
    ELSE IF Contains(up, "LIGHT") THEN "LIGHT"
    ELSE IF Contains(up, "COMPACT") THEN "COMPACT"
    ELSE IF Contains(up, "ICE") \/ Contains(up, "COMBUSTION") THEN "ICE"
    ELSE IF Contains(up, "FUEL") \/ Contains(up, "CELL") THEN "FUEL_CELL"
    ELSE IF Contains(up, "FISSION") THEN "FISSION"
    ELSE "STANDARD"

\* the substring tests of map_engine_type on the upper-cased input
engine_fallback(up) ==
    IF Contains(up, "XXL") THEN "XXL"
    ELSE IF Contains(up, "XL") /\ Contains(up, "CLAN") THEN "CLAN_XL"
    ELSE IF Contains(up, "XL") THEN "XL"
    ELSE IF Contains(up, "LIGHT") THEN "LIGHT"
    ELSE IF Contains(up, "COMPACT") THEN "COMPACT"
    ELSE IF Contains(up, "ICE") \/ Contains(up, "COMBUSTION") THEN "ICE"
    ELSE IF Contains(up, "FUEL") \/ Contains(up, "CELL") THEN "FUEL_CELL"
    ELSE IF Contains(up, "FISSION") THEN "FISSION"
    ELSE "FUSION"

\* map_engine_type normalising the case before the table lookup
map_engine_type_upper_lookup(v) ==
    LET clean == strip(v)
    IN  IF upper(clean) \in DOMAIN tables.ENGINE_TYPE_MAP
        THEN Subscript(tables.ENGINE_TYPE_MAP, upper(clean))
        ELSE engine_fallback(upper(clean))

map_engine_type(v) ==
    LET clean == strip(v)
    IN  IF clean \in DOMAIN tables.ENGINE_TYPE_MAP
        THEN Subscript(tables.ENGINE_TYPE_MAP, clean)
        ELSE engine_fallback(upper(clean))

gyro_fallback(up) ==
    IF Contains(up, "SUPERHEAVY") \/ Contains(up, "SUPER HEAVY") THEN "SUPERHEAVY"
    ELSE IF Contains(up, "XL") \/ Contains(up, "EXTRA") THEN "XL"
    ELSE IF Contains(up, "COMPACT") THEN "COMPACT"
    ELSE IF Contains(up, "HEAVY") THEN "HEAVY_DUTY"
    ELSE "STANDARD"

map_gyro_type(v) ==
    LET clean == strip(v)
    IN  IF clean \in DOMAIN tables.GYRO_TYPE_MAP
        THEN Subscript(tables.GYRO_TYPE_MAP, clean)
        ELSE gyro_fallback(upper(clean))

map_cockpit_type(v) ==
    LET clean == strip(v)
    IN  Get(tables.COCKPIT_TYPE_MAP, clean, "STANDARD")

structure_fallback(up) ==
    IF Contains(up, "ENDO") /\ Contains(up, "COMPOSITE") THEN "ENDO_COMPOSITE"
    ELSE IF Contains(up, "ENDO") /\ Contains(up, "CLAN") THEN "ENDO_STEEL_CLAN"
    ELSE IF Contains(up, "ENDO") THEN "ENDO_STEEL"
    ELSE IF Contains(up, "REINFORCED") THEN "REINFORCED"
    ELSE IF Contains(up, "COMPOSITE") THEN "COMPOSITE"
    ELSE IF Contains(up, "INDUSTRIAL") THEN "INDUSTRIAL"
    ELSE "STANDARD"

map_structure_type(v) ==
    LET clean == strip(v)
    IN  IF clean \in DOMAIN tables.STRUCTURE_TYPE_MAP
        THEN Subscript(tables.STRUCTURE_TYPE_MAP, clean)
        ELSE structure_fallback(upper(clean))

\* armor_fallback with the generic FERRO test moved above the compound tests
armor_fallback_generic_first(up) ==
    IF Contains(up, "STEALTH") THEN "STEALTH"
    ELSE IF Contains(up, "REACTIVE") THEN "REACTIVE"
    ELSE IF Contains(up, "REFLECTIVE") \/ Contains(up, "LASER-REFLECT") THEN "REFLECTIVE"
    ELSE IF Contains(up, "HARDENED") THEN "HARDENED"
    ELSE IF Contains(up, "FERRO") THEN "FERRO_FIBROUS"
    ELSE IF Contains(up, "HEAVY") /\ Contains(up, "FERRO") THEN "HEAVY_FERRO_FIBROUS"
    ELSE IF Contains(up, "LIGHT") /\ Contains(up, "FERRO") THEN "LIGHT_FERRO_FIBROUS"
    ELSE IF Contains(up, "FERRO") /\ Contains(up, "CLAN") THEN "FERRO_FIBROUS_CLAN"
    ELSE IF Contains(up, "PRIMITIVE") THEN "PRIMITIVE"
    ELSE IF Contains(up, "COMMERCIAL") THEN "COMMERCIAL"
    ELSE IF Contains(up, "IMPACT") /\ Contains(up, "RESIST") THEN "IMPACT_RESISTANT"
    ELSE IF Contains(up, "HEAVY") /\ Contains(up, "INDUSTRIAL") THEN "HEAVY_INDUSTRIAL"
    ELSE IF Contains(up, "INDUSTRIAL") THEN "INDUSTRIAL"
    ELSE "STANDARD"

armor_fallback(up) ==
    IF Contains(up, "STEALTH") THEN "STEALTH"
    ELSE IF Contains(up, "REACTIVE") THEN "REACTIVE"
    ELSE IF Contains(up, "REFLECTIVE") \/ Contains(up, "LASER-REFLECT") THEN "REFLECTIVE"
    ELSE IF Contains(up, "HARDENED") THEN "HARDENED"
    ELSE IF Contains(up, "HEAVY") /\ Contains(up, "FERRO") THEN "HEAVY_FERRO_FIBROUS"
    ELSE IF Contains(up, "LIGHT") /\ Contains(up, "FERRO") THEN "LIGHT_FERRO_FIBROUS"
    ELSE IF Contains(up, "FERRO") /\ Contains(up, "CLAN") THEN "FERRO_FIBROUS_CLAN"
    ELSE IF Contains(up, "FERRO") THEN "FERRO_FIBROUS"
    ELSE IF Contains(up, "PRIMITIVE") THEN "PRIMITIVE"
    ELSE IF Contains(up, "COMMERCIAL") THEN "COMMERCIAL"
    ELSE IF Contains(up, "IMPACT") /\ Contains(up, "RESIST") THEN "IMPACT_RESISTANT"
    ELSE IF Contains(up, "HEAVY") /\ Contains(up, "INDUSTRIAL") THEN "HEAVY_INDUSTRIAL"
    ELSE IF Contains(up, "INDUSTRIAL") THEN "INDUSTRIAL"
    ELSE "STANDARD"

map_armor_type(v) ==
    LET clean == strip(v)
    IN  IF clean \in DOMAIN tables.ARMOR_TYPE_MAP
        THEN Subscript(tables.ARMOR_TYPE_MAP, clean)
        ELSE armor_fallback(upper(clean))

\* heat_sink_fallback ending in the default of the other equipment categories
heat_sink_fallback_standard(up) ==
    IF Contains(up, "DOUBLE") /\ Contains(up, "CLAN") THEN "DOUBLE_CLAN"
    ELSE IF Contains(up, "DOUBLE") THEN "DOUBLE"
    ELSE IF Contains(up, "COMPACT") THEN "COMPACT"
    ELSE IF Contains(up, "LASER") THEN "LASER"
    ELSE "STANDARD"

heat_sink_fallback(up) ==
    IF Contains(up, "DOUBLE") /\ Contains(up, "CLAN") THEN "DOUBLE_CLAN"
    ELSE IF Contains(up, "DOUBLE") THEN "DOUBLE"
    ELSE IF Contains(up, "COMPACT") THEN "COMPACT"
    ELSE IF Contains(up, "LASER") THEN "LASER"
    ELSE "SINGLE"

map_heat_sink_type(v) ==
    LET clean == strip(v)
    IN  IF clean \in DOMAIN tables.HEAT_SINK_TYPE_MAP
        THEN Subscript(tables.HEAT_SINK_TYPE_MAP, clean)
        ELSE heat_sink_fallback(upper(clean))

\* the last return of map_mech_location
location_fallback(clean) == replaceChar(upper(clean), " ", "_")

\* map_mech_location looking the armor key up without lower-casing it
map_mech_location_cased(v) ==
    LET clean == strip(v)
    IN  IF clean \in DOMAIN tables.MECH_LOCATION_MAP
        THEN Subscript(tables.MECH_LOCATION_MAP, clean)
        ELSE IF clean \in DOMAIN tables.ARMOR_LOCATION_KEY_MAP
             THEN Subscript(tables.ARMOR_LOCATION_KEY_MAP, clean)
             ELSE location_fallback(clean)

map_mech_location(v) ==
    LET clean == strip(v)
    IN  IF clean \in DOMAIN tables.MECH_LOCATION_MAP
        THEN Subscript(tables.MECH_LOCATION_MAP, clean)
        ELSE IF lower(clean) \in DOMAIN tables.ARMOR_LOCATION_KEY_MAP
             THEN Subscript(tables.ARMOR_LOCATION_KEY_MAP, lower(clean))
             ELSE location_fallback(clean)

\* map_mech_config reading the table of the function below it
map_mech_config_unit_table(v) ==
    LET clean == strip(v)
    IN  Get(tables.UNIT_TYPE_MAP, clean, "Biped")

map_mech_config(v) ==
    LET clean == strip(v)
    IN  Get(tables.MECH_CONFIG_MAP, clean, "Biped")

\* map_unit_type handing an unknown token through, as map_mech_location does
map_unit_type_passthrough(v) ==
    LET clean == strip(v)
    IN  Get(tables.UNIT_TYPE_MAP, clean, clean)

map_unit_type(v) ==
    LET clean == strip(v)
    IN  Get(tables.UNIT_TYPE_MAP, clean, "BattleMech")

\* map_year_to_era with the Clan Invasion test closed at its threshold
map_year_to_era_closed(y) ==
    IF y < 2005 THEN "EARLY_SPACEFLIGHT"
    ELSE IF y < 2571 THEN "AGE_OF_WAR"
    ELSE IF y < 2781 THEN "STAR_LEAGUE"
    ELSE IF y <= 3050 THEN "SUCCESSION_WARS"
    ELSE IF y < 3068 THEN "CLAN_INVASION"
    ELSE IF y < 3081 THEN "CIVIL_WAR"
    ELSE IF y < 3152 THEN "DARK_AGE"
    ELSE "ILCLAN"

\* map_year_to_era with the Civil War branch left out
map_year_to_era_short(y) ==
    IF y < 2005 THEN "EARLY_SPACEFLIGHT"
    ELSE IF y < 2571 THEN "AGE_OF_WAR"
    ELSE IF y < 2781 THEN "STAR_LEAGUE"
    ELSE IF y < 3050 THEN "SUCCESSION_WARS"
    ELSE IF y < 3068 THEN "CLAN_INVASION"
    ELSE IF y < 3152 THEN "DARK_AGE"
    ELSE "ILCLAN"

map_year_to_era(y) ==
    IF y < 2005 THEN "EARLY_SPACEFLIGHT"
    ELSE IF y < 2571 THEN "AGE_OF_WAR"
    ELSE IF y < 2781 THEN "STAR_LEAGUE"
    ELSE IF y < 3050 THEN "SUCCESSION_WARS"
    ELSE IF y < 3068 THEN "CLAN_INVASION"
    ELSE IF y < 3081 THEN "CIVIL_WAR"
    ELSE IF y < 3152 THEN "DARK_AGE"
    ELSE "ILCLAN"

-----------------------------------------------------------------------------
(* Utility functions                                                       *)

\* remove_double_dashes with one replace in place of the loop
remove_double_dashes_once(s) == replace(s, "--", "-")

\* while "--" in id_str: id_str = id_str.replace("--", "-")
RECURSIVE remove_double_dashes(_)
remove_double_dashes(s) ==
    IF Contains(s, "--") THEN remove_double_dashes(replace(s, "--", "-")) ELSE s

generate_id_from_name(chassis, mdl) ==
    LET combined == lower(chassis \o "-" \o mdl)
        id1 == replace(replace(replace(replace(combined, " ", "-"), "/", "-"), "(", ""), ")", "")
        id2 == replace(replace(replace(replace(id1, "'", ""), "\"", ""), ".", ""), ",", "")
    IN  stripChar(remove_double_dashes(id2), "-")

normalize_equipment_id(name) ==
    LET id0 == lower(name)
        id1 == replace(replace(replace(id0, "(clan)", "clan"), "(is)", "is"),
                       "(inner sphere)", "is")
        id2 == replace(replace(id1, "/", "-"), " ", "-")
        id3 == replace(replace(id2, "(", ""), ")", "")
        id4 == replace(replace(id3, "'", ""), "\"", "")
    IN  stripChar(remove_double_dashes(id4), "-")

\* era_folders without the entry of the last era
era_folders_without_ilclan ==
       ("EARLY_SPACEFLIGHT" :> "0-early-spaceflight")
    @@ ("AGE_OF_WAR" :> "1-age-of-war")
    @@ ("STAR_LEAGUE" :> "2-star-league")
    @@ ("SUCCESSION_WARS" :> "3-succession-wars")
    @@ ("CLAN_INVASION" :> "4-clan-invasion")
    @@ ("CIVIL_WAR" :> "5-civil-war")
    @@ ("DARK_AGE" :> "6-dark-age")

era_folders ==
       ("EARLY_SPACEFLIGHT" :> "0-early-spaceflight")
    @@ ("AGE_OF_WAR" :> "1-age-of-war")
    @@ ("STAR_LEAGUE" :> "2-star-league")
    @@ ("SUCCESSION_WARS" :> "3-succession-wars")
    @@ ("CLAN_INVASION" :> "4-clan-invasion")
    @@ ("CIVIL_WAR" :> "5-civil-war")
    @@ ("DARK_AGE" :> "6-dark-age")
    @@ ("ILCLAN" :> "7-ilclan")

get_era_folder_name(era) == Get(era_folders, era, "99-unknown")

rules_folders ==
       ("INTRODUCTORY" :> "introductory")
    @@ ("STANDARD" :> "standard")
    @@ ("ADVANCED" :> "advanced")
    @@ ("EXPERIMENTAL" :> "experimental")

get_rules_level_folder_name(rules_level) == Get(rules_folders, rules_level, "standard")

-----------------------------------------------------------------------------
(* Arguments                                                               *)

\* most words joined into one phrase
MaxWords == 2
\* how far beyond the first and the last era threshold the years reach
YearMargin == 40

RECURSIVE PhrasesOfLen(_, _)
PhrasesOfLen(W, n) ==
    IF n = 1 THEN W ELSE {p \o " " \o w : p \in PhrasesOfLen(W, n - 1), w \in W}

Phrases(W) == UNION {PhrasesOfLen(W, n) : n \in 1..MaxWords}

\* words the fallback tests look for, per category, in mixed case
EngineWords == {"XXL", "XL", "Clan", "light", "Compact", "ICE", "Combustion",
                "Fuel", "CELL", "Fission", "Engine"}
GyroWords == {"Superheavy", "Super", "Heavy", "xl", "Extra", "COMPACT", "Gyro"}
StructureWords == {"Endo", "Composite", "CLAN", "Reinforced", "industrial", "Steel"}
ArmorWords == {"Stealth", "Reactive", "Reflective", "Laser-Reflect", "Hardened",
               "Heavy", "LIGHT", "Ferro", "clan", "Primitive", "Commercial",
               "Impact", "Resist", "Industrial"}
HeatSinkWords == {"Double", "CLAN", "Compact", "laser", "Sink"}
RulesWords == {"Level", "IS", "0", "3", "4", "7", "x9"}

AliasTables == <<TECH_BASE_MAP, RULES_LEVEL_MAP, ENGINE_TYPE_MAP, GYRO_TYPE_MAP,
                 COCKPIT_TYPE_MAP, STRUCTURE_TYPE_MAP, ARMOR_TYPE_MAP,
                 HEAT_SINK_TYPE_MAP, MECH_LOCATION_MAP, ARMOR_LOCATION_KEY_MAP,
                 MECH_CONFIG_MAP, UNIT_TYPE_MAP>>

AliasKeys == UNION {DOMAIN AliasTables[i] : i \in DOMAIN AliasTables}
CanonicalTokens == UNION {Values(AliasTables[i]) : i \in DOMAIN AliasTables}

\* strings that are no key and hold no keyword, and whitespace-only strings
Stray == {"", " ", "\t\n ", "Turret", "Unknown Thing", "head", "Left arm",
          "left torso (rear)", "Is", "n/a", "-",
          "Clan Heavy Ferro-Fibrous", "Heavy Light Ferro", "Heavy Industrial Ferro",
          "Clan Endo Composite", "Clan XXL Engine", "Clan Double Laser"}

Bare == AliasKeys \cup {upper(k) : k \in AliasKeys} \cup {lower(k) : k \in AliasKeys}
          \cup CanonicalTokens \cup Stray
          \cup Phrases(EngineWords) \cup Phrases(GyroWords) \cup Phrases(StructureWords)
          \cup Phrases(ArmorWords) \cup Phrases(HeatSinkWords) \cup Phrases(RulesWords)

\* the same strings as a file line holds them, with whitespace around
RawValues == Bare \cup {"  " \o s \o "\t" : s \in Bare}

Years == ((2005 - YearMargin)..(3152 + YearMargin)) \cup {-1, 0, 1}

\* how many callers run at the same time
NumCallers == 2

Callers == 1..NumCallers

\* a caller outside of every call
Idle == [fn |-> "none", value |-> "", model |-> "", year |-> 0]

NoCalls == [c \in Callers |-> Idle]

\* the calls the concurrent callers choose from: an alias, fallbacks, defaults,
\* a year and the two slug functions
Probes ==
    {[fn |-> "map_tech_base", value |-> " Clan ", model |-> "", year |-> 0],
     [fn |-> "map_engine_type", value |-> "Clan XL", model |-> "", year |-> 0],
     [fn |-> "map_mech_config", value |-> "Turret", model |-> "", year |-> 0],
     [fn |-> "map_unit_type", value |-> "Turret", model |-> "", year |-> 0],
     [fn |-> "map_year_to_era", value |-> "", model |-> "", year |-> 3050],
     [fn |-> "generate_id_from_name", value |-> "Atlas", model |-> "AS7-D", year |-> 0],
     [fn |-> "normalize_equipment_id", value |-> "Gauss Rifle (Clan)", model |-> "",
      year |-> 0]}

-----------------------------------------------------------------------------
(* The caller                                                              *)

Init ==
    /\ \/ value \in RawValues /\ year = 0
       \/ value = "" /\ year \in Years
    /\ fn = "none"
    /\ result = ""
    /\ model = ""
    /\ tables = LoadedTables
    /\ calls = NoCalls
    /\ returned = {}
    /\ FixerIdle
    /\ ReportIdle

\* One call: the caller hands its argument to one function and keeps what
\* comes back.  The functions read only their argument and the tables, so a
\* behaviour is a choice of argument followed by one call; fn = "none" is the
\* caller's position before the call.
Call(name, ret) ==
    /\ fn = "none"
    /\ fn' = name
    /\ result' = ret
    /\ UNCHANGED <<value, year, model, tables, calls, returned, fixerVars, reportVars>>

MapTechBase == Call("map_tech_base", map_tech_base(value))
MapRulesLevel == Call("map_rules_level", map_rules_level(value))
MapEngineType == Call("map_engine_type", map_engine_type(value))
MapGyroType == Call("map_gyro_type", map_gyro_type(value))
MapCockpitType == Call("map_cockpit_type", map_cockpit_type(value))
MapStructureType == Call("map_structure_type", map_structure_type(value))
MapArmorType == Call("map_armor_type", map_armor_type(value))
MapHeatSinkType == Call("map_heat_sink_type", map_heat_sink_type(value))
MapMechLocation == Call("map_mech_location", map_mech_location(value))
MapMechConfig == Call("map_mech_config", map_mech_config(value))
MapUnitType == Call("map_unit_type", map_unit_type(value))
MapYearToEra == Call("map_year_to_era", map_year_to_era(year))

\* get_era_folder_name(map_year_to_era(year)): the folder of the era the
\* caller has just got
GetEraFolderName ==
    /\ fn = "map_year_to_era"
    /\ fn' = "get_era_folder_name"
    /\ result' = get_era_folder_name(result)
    /\ UNCHANGED <<value, year, model, tables, calls, returned, fixerVars, reportVars>>

Next ==
    \/ MapTechBase
    \/ MapRulesLevel
    \/ MapEngineType
    \/ MapGyroType
    \/ MapCockpitType
    \/ MapStructureType
    \/ MapArmorType
    \/ MapHeatSinkType
    \/ MapMechLocation
    \/ MapMechConfig
    \/ MapUnitType
    \/ MapYearToEra
    \/ GetEraFolderName

Spec == Init /\ [][Next]_vars

-----------------------------------------------------------------------------
(* The caller of the string functions alone                                *)

\* keys, canonical tokens, fallback keywords and strays, bare and as a file
\* line holds them
PaddedValues ==
    LET bare == AliasKeys \cup CanonicalTokens \cup Stray \cup EngineWords \cup GyroWords
                  \cup StructureWords \cup ArmorWords \cup HeatSinkWords \cup RulesWords
    IN  bare \cup {"  " \o s \o "\t" : s \in bare}

StringInit ==
    /\ value \in PaddedValues
    /\ year = 0
    /\ fn = "none"
    /\ result = ""
    /\ model = ""
    /\ tables = LoadedTables
    /\ calls = NoCalls
    /\ returned = {}
    /\ FixerIdle
    /\ ReportIdle

StringNext ==
    \/ MapTechBase
    \/ MapRulesLevel
    \/ MapEngineType
    \/ MapGyroType
    \/ MapCockpitType
    \/ MapStructureType
    \/ MapArmorType
    \/ MapHeatSinkType
    \/ MapMechLocation
    \/ MapMechConfig
    \/ MapUnitType

StringSpec == StringInit /\ [][StringNext]_vars

-----------------------------------------------------------------------------
(* The caller of the slug functions                                        *)

\* most pieces joined into one name
MaxPieces == 2

\* pieces of chassis, model and equipment names: words, the characters the
\* slug functions replace or drop, and the bracketed tech-base tags
NamePieces == {"Atlas", "AS7-D", "Gauss Rifle", " ", "/", "-", ".", ",", "'", "\"",
               "(", ")", "(Clan)", "(IS)", "(Inner Sphere)"}

RECURSIVE NamesOfLen(_)
NamesOfLen(n) ==
    IF n = 1 THEN NamePieces ELSE {a \o b : a \in NamesOfLen(n - 1), b \in NamePieces}

Names == {""} \cup UNION {NamesOfLen(n) : n \in 1..MaxPieces}

Models == {""} \cup NamePieces \cup {"Gauss Rifle (Clan)", " -- x"}

SlugInit ==
    /\ value \in Names \cup {"Gauss Rifle (Clan)"}
    /\ model \in Models
    /\ year = 0
    /\ fn = "none"
    /\ result = ""
    /\ tables = LoadedTables
    /\ calls = NoCalls
    /\ returned = {}
    /\ FixerIdle
    /\ ReportIdle

GenerateIdFromName == Call("generate_id_from_name", generate_id_from_name(value, model))
NormalizeEquipmentId == Call("normalize_equipment_id", normalize_equipment_id(value))

SlugNext ==
    \/ GenerateIdFromName
    \/ NormalizeEquipmentId

SlugSpec == SlugInit /\ [][SlugNext]_vars

-----------------------------------------------------------------------------
(* Concurrent callers                                                      *)

\* the string mapping function of each name
MapOf(f, v) ==
    CASE f = "map_tech_base" -> map_tech_base(v)
      [] f = "map_rules_level" -> map_rules_level(v)
      [] f = "map_engine_type" -> map_engine_type(v)
      [] f = "map_gyro_type" -> map_gyro_type(v)
      [] f = "map_cockpit_type" -> map_cockpit_type(v)
      [] f = "map_structure_type" -> map_structure_type(v)
      [] f = "map_armor_type" -> map_armor_type(v)
      [] f = "map_heat_sink_type" -> map_heat_sink_type(v)
      [] f = "map_mech_location" -> map_mech_location(v)
      [] f = "map_mech_config" -> map_mech_config(v)
      [] f = "map_unit_type" -> map_unit_type(v)

\* what the call c returns, read from the tables as they are now
Apply(c) ==
    CASE c.fn = "map_year_to_era" -> map_year_to_era(c.year)
      [] c.fn = "generate_id_from_name" -> generate_id_from_name(c.value, c.model)
      [] c.fn = "normalize_equipment_id" -> normalize_equipment_id(c.value)
      [] OTHER -> MapOf(c.fn, c.value)

\* TablesAfter with MECH_CONFIG_MAP.setdefault(clean, "Biped") in place of
\* MECH_CONFIG_MAP.get(clean, "Biped") in map_mech_config
TablesAfter_setdefault(c) ==
    IF c.fn = "map_mech_config" /\ strip(c.value) \notin DOMAIN tables.MECH_CONFIG_MAP
    THEN [tables EXCEPT !.MECH_CONFIG_MAP = @ @@ (strip(c.value) :> "Biped")]
    ELSE tables

\* the tables after the call c: the function bodies only read the dicts (in,
\* [], .get, .values) and assign to locals
TablesAfter(c) == tables

PureInit ==
    /\ value = ""
    /\ year = 0
    /\ fn = "none"
    /\ result = ""
    /\ model = ""
    /\ tables = LoadedTables
    /\ calls = NoCalls
    /\ returned = {}
    /\ FixerIdle
    /\ ReportIdle

\* caller c enters one of the functions
Invoke(c) ==
    /\ calls[c] = Idle
    /\ \E p \in Probes : calls' = [calls EXCEPT ![c] = p]
    /\ UNCHANGED <<value, year, fn, result, model, tables, returned, fixerVars, reportVars>>

\* the function caller c is inside of runs its body and returns
Return(c) ==
    /\ calls[c] # Idle
    /\ returned' = returned \cup {[call |-> calls[c], ret |-> Apply(calls[c])]}
    /\ tables' = TablesAfter(calls[c])
    /\ calls' = [calls EXCEPT ![c] = Idle]
    /\ UNCHANGED <<value, year, fn, result, model, fixerVars, reportVars>>

PureNext ==
    \/ \E c \in Callers : Invoke(c)
    \/ \E c \in Callers : Return(c)

PureSpec == PureInit /\ [][PureNext]_vars

-----------------------------------------------------------------------------
(* The terminology fixer: regular expressions                              *)

\* what re.sub returns in the model when it raises re.error
ReError == "<re.error>"

\* \w for the characters the files hold
isword(c) == c \in CharSet(LowerLetters \o UpperLetters \o Digits \o "_")

\* A pattern of the form \bw1\s+w2...\b is kept as its words; groups counts
\* its capturing groups and refs holds the group numbers its replacement
\* template refers to.
CAPITALIZATION_FIXES ==
    <<[pattern |-> "\\bBattlemech\\b", words |-> <<"Battlemech">>, groups |-> 0,
       replacement |-> "BattleMech", refs |-> {}],
      [pattern |-> "\\bBattle\\s+Mech\\b", words |-> <<"Battle", "Mech">>, groups |-> 0,
       replacement |-> "BattleMech", refs |-> {}],
      [pattern |-> "\\bbattle\\s+mech\\b", words |-> <<"battle", "mech">>, groups |-> 0,
       replacement |-> "BattleMech", refs |-> {}]>>

\* The list up to its seventh entry, the scenario-heading pattern: it has one
\* capturing group and its template refers to \1 and \g<2>.  It is not of the
\* word form and is never searched for, and the entries behind it are never
\* reached, because re.sub parses the template before it searches.
FORMAL_CONTEXTS ==
    <<[pattern |-> "\\bIMech\\b", words |-> <<"IMech">>, groups |-> 0,
       replacement |-> "IBattleMech", refs |-> {}],
      [pattern |-> "(\\bmech\\s+tonnage\\b)", words |-> <<"mech", "tonnage">>, groups |-> 1,
       replacement |-> "BattleMech tonnage", refs |-> {}],
      [pattern |-> "(\\bmech\\s+mass\\b)", words |-> <<"mech", "mass">>, groups |-> 1,
       replacement |-> "BattleMech mass", refs |-> {}],
      [pattern |-> "(\\bmech\\s+weight\\b)", words |-> <<"mech", "weight">>, groups |-> 1,
       replacement |-> "BattleMech weight", refs |-> {}],
      [pattern |-> "(\\bmech\\s+configuration\\b)", words |-> <<"mech", "configuration">>,
       groups |-> 1, replacement |-> "BattleMech configuration", refs |-> {}],
      [pattern |-> "(\\bmech\\s+construction\\b)", words |-> <<"mech", "construction">>,
       groups |-> 1, replacement |-> "BattleMech construction", refs |-> {}],
      [pattern |-> "(####\\s+Scenario:\\s+)(?:Light|Medium|Heavy|Assault)\\s+mech\\s+",
       words |-> <<>>, groups |-> 1,
       replacement |-> "\\1\\g<2> BattleMech ", refs |-> {1, 2}]>>

\* the first position at or after i that holds no whitespace
RECURSIVE SkipSpace(_, _)
SkipSpace(s, i) ==
    IF i <= Len(s) /\ isspace(CharAt(s, i)) THEN SkipSpace(s, i + 1) ELSE i

\* does s hold the word w at position i (whatever the case under IGNORECASE)
HasWordAt(s, i, w, ignorecase) ==
    /\ i + Len(w) - 1 <= Len(s)
    /\ LET sub == SubSeq(s, i, i + Len(w) - 1)
       IN  IF ignorecase THEN lower(sub) = lower(w) ELSE sub = w

\* the words from the k-th on matched at position i, \s+ between two words and
\* \b behind the last: the position behind the match, 0 without a match
RECURSIVE MatchWordsFrom(_, _, _, _, _)
MatchWordsFrom(words, ignorecase, s, i, k) ==
    IF ~HasWordAt(s, i, words[k], ignorecase) THEN 0
    ELSE LET j == i + Len(words[k])
         IN  IF k = Len(words)
             THEN IF j > Len(s) \/ ~isword(CharAt(s, j)) THEN j ELSE 0
             ELSE IF SkipSpace(s, j) = j THEN 0
                  ELSE MatchWordsFrom(words, ignorecase, s, SkipSpace(s, j), k + 1)

\* a match that starts at position i, \b in front of the first word
MatchAt(p, ignorecase, s, i) ==
    IF i = 1 \/ ~isword(CharAt(s, i - 1))
    THEN MatchWordsFrom(p.words, ignorecase, s, i, 1)
    ELSE 0

\* the matches are replaced from the left and do not overlap
RECURSIVE SubFrom(_, _, _, _)
SubFrom(p, ignorecase, s, i) ==
    IF i > Len(s) THEN ""
    ELSE IF MatchAt(p, ignorecase, s, i) > 0
         THEN p.replacement \o SubFrom(p, ignorecase, s, MatchAt(p, ignorecase, s, i))
         ELSE CharAt(s, i) \o SubFrom(p, ignorecase, s, i + 1)

\* re.sub(pattern, replacement, s, flags): the template is parsed first, and a
\* reference to a group the pattern does not have raises re.error
re_sub(p, ignorecase, s) ==
    IF p.refs \subseteq 1..p.groups THEN SubFrom(p, ignorecase, s, 1) ELSE ReError

\* len(re.findall(pattern, s, flags))
RECURSIVE CountFrom(_, _, _, _)
CountFrom(p, ignorecase, s, i) ==
    IF i > Len(s) THEN 0
    ELSE IF MatchAt(p, ignorecase, s, i) > 0
         THEN 1 + CountFrom(p, ignorecase, s, MatchAt(p, ignorecase, s, i))
         ELSE CountFrom(p, ignorecase, s, i + 1)

-----------------------------------------------------------------------------
(* The terminology fixer: TerminologyFixer                                 *)

\* should_skip_line(line, in_code_block)
should_skip_line(line, in_code_block) ==
    \/ in_code_block
    \/ (Len(strip(line)) >= 2 /\ SubSeq(strip(line), 1, 2) = "//")
    \/ Contains(line, "http://")
    \/ Contains(line, "https://")

\* The loop both fix methods run: one re.sub per entry, and an entry that
\* changed the text adds a line to self.changes.  An entry whose re.sub
\* raises ends the loop with what self.changes holds by then.
RECURSIVE ApplyFixes(_, _, _, _, _, _)
ApplyFixes(fixes, ignorecase, label, i, content, chg) ==
    IF i > Len(fixes) THEN [raised |-> FALSE, content |-> content, changes |-> chg]
    ELSE LET modified == re_sub(fixes[i], ignorecase, content)
             line == [label |-> label, pattern |-> fixes[i].pattern,
                      replacement |-> fixes[i].replacement,
                      matches |-> CountFrom(fixes[i], ignorecase, content, 1)]
         IN  IF modified = ReError
             THEN [raised |-> TRUE, content |-> content, changes |-> chg]
             ELSE ApplyFixes(fixes, ignorecase, label, i + 1, modified,
                             IF modified # content THEN Append(chg, line) ELSE chg)

fix_formal_contexts(content, chg) ==
    ApplyFixes(FORMAL_CONTEXTS, TRUE, "Replaced", 1, content, chg)

fix_capitalizations(content, chg) ==
    ApplyFixes(CAPITALIZATION_FIXES, FALSE, "Fixed capitalization", 1, content, chg)

\* the position of the last "." of a file name, 0 if it has none
RECURSIVE LastDot(_, _)
LastDot(name, i) ==
    IF i = 0 THEN 0 ELSE IF CharAt(name, i) = "." THEN i ELSE LastDot(name, i - 1)

\* Path.with_suffix for a path without directories
with_suffix(path, suffix) ==
    IF LastDot(path, Len(path)) > 1
    THEN SubSeq(path, 1, LastDot(path, Len(path)) - 1) \o suffix
    ELSE path \o suffix

\* most lines self.changes holds when a file is taken up
MaxChanges == 2

\* the fence of a code block; the backquote has no place in a string here, so
\* the tilde fence of Markdown stands for it (no pattern holds either)
Fence == "~~~"

Files == {"a.md", "b.md"}

\* what a spec file holds: text the patterns match and text they do not, in
\* prose, in a fenced block, in a comment line and beside a URL
Contents ==
    {"the mech walks\n",
     "A Battlemech and a Battle  Mech\n",
     "IMech has a Mech Tonnage\n",
     Fence \o "\nnew Battlemech()\n" \o Fence \o "\n",
     "  // battle mech\n",
     "see https://x.org/Battle Mech\n",
     "#### Scenario: Light mech walks\n",
     "a battle\nmech\n"}

FixerInit ==
    /\ dry_run \in BOOLEAN
    /\ changes = <<>>
    /\ disk \in [Files -> Contents]
    /\ pc = "idle"
    /\ file_path = ""
    /\ original_content = ""
    /\ modified_content = ""
    /\ process_file_result = "none"
    /\ value = "" /\ year = 0 /\ fn = "none" /\ result = "" /\ model = ""
    /\ tables = LoadedTables /\ calls = NoCalls /\ returned = {}
    /\ ReportIdle

\* process_file(file_path) up to the read of the file
ProcessFile(path) ==
    /\ pc = "idle"
    /\ Len(changes) < MaxChanges
    /\ file_path' = path
    /\ original_content' = disk[path]
    /\ modified_content' = disk[path]
    /\ process_file_result' = "none"
    /\ pc' = "fix_capitalizations"
    /\ UNCHANGED <<dry_run, changes, disk, normaliserVars, reportVars>>

\* modified_content = self.fix_capitalizations(modified_content)
FixCapitalizations ==
    /\ pc = "fix_capitalizations"
    /\ LET r == fix_capitalizations(modified_content, changes)
       IN  /\ changes' = r.changes
           /\ modified_content' = r.content
           /\ pc' = IF r.raised THEN "idle" ELSE "fix_formal_contexts"
           /\ process_file_result' = IF r.raised THEN "False" ELSE process_file_result
    /\ UNCHANGED <<dry_run, disk, file_path, original_content, normaliserVars, reportVars>>

\* modified_content = self.fix_formal_contexts(modified_content) and the rest
\* of process_file: the comparison, the two writes unless dry_run, the return,
\* and the except branch if the call raised
FixFormalContextsAndReturn ==
    /\ pc = "fix_formal_contexts"
    /\ LET r == fix_formal_contexts(modified_content, changes)
           differs == r.content # original_content
       IN  /\ modified_content' = IF r.raised THEN modified_content ELSE r.content
           /\ disk' = IF ~r.raised /\ differs /\ ~dry_run
                      THEN (file_path :> r.content)
                             @@ (with_suffix(file_path, ".md.bak") :> original_content)
                             @@ disk
                      ELSE disk
           /\ changes' = IF ~r.raised /\ differs THEN <<>> ELSE r.changes
           /\ process_file_result' = IF ~r.raised /\ differs THEN "True" ELSE "False"
    /\ pc' = "idle"
    /\ UNCHANGED <<dry_run, file_path, original_content, normaliserVars, reportVars>>

FixerNext ==
    \/ \E path \in Files : ProcessFile(path)
    \/ FixCapitalizations
    \/ FixFormalContextsAndReturn

FixerSpec == FixerInit /\ [][FixerNext]_vars

-----------------------------------------------------------------------------
(* The spec-coverage report                                                *)

\* the dict categories, in the order of its keys
categories ==
    <<
      [cat |-> "CAMPAIGN",
       keywords |-> <<
          "campaign-", "day-progression", "faction-standing",
          "mission-contracts", "contract-types", "turnover-retention",
          "random-events", "scenario-generation", "simulation-system">>],
      [cat |-> "GAMEPLAY",
       keywords |-> <<
          "combat-", "damage-", "critical-", "heat-", "movement-",
          "physical-", "weapon-", "armor-", "fall-", "shutdown-",
          "piloting-", "indirect-", "environmental-", "secondary-target-",
          "to-hit-", "ecm-", "quirk-", "spa-">>],
      [cat |-> "CONSTRUCTION",
       keywords |-> <<
          "engine-", "gyro-", "heat-sink-", "internal-structure-",
          "cockpit-", "armor-system", "movement-system", "construction-",
          "equipment-", "hardpoint-", "critical-slot-", "omnimech-",
          "superheavy-">>],
      [cat |-> "EQUIPMENT",
       keywords |-> <<
          "weapon-", "ammunition-", "electronics-", "equipment-", "ammo-">>],
      [cat |-> "UI_COMPONENTS",
       keywords |-> <<
          "armor-diagram", "customizer-", "equipment-browser",
          "equipment-tray", "mobile-loadout-tray", "multi-unit-tabs",
          "overview-", "unit-info-banner", "confirmation-dialogs",
          "toast-notifications", "balanced-grid", "color-system", "app-",
          "desktop-", "storybook-">>],
      [cat |-> "PERSONNEL",
       keywords |-> <<
          "personnel-", "medical-", "awards", "skills-", "audit-timeline">>],
      [cat |-> "ECONOMY",
       keywords |-> <<
          "financial-", "markets-", "acquisition-", "repair",
          "repair-maintenance">>],
      [cat |-> "DATA_MODELS",
       keywords |-> <<
          "core-", "database-", "unit-entity-", "unit-store-",
          "unit-validation-", "unit-versioning", "serialization-",
          "persistence-", "event-store", "vault-sync", "data-">>],
      [cat |-> "SYSTEM",
       keywords |-> <<
          "formula-registry", "rules-level-", "era-temporal-", "tech-base-",
          "tech-rating-", "battle-value-", "weight-class-", "force-",
          "game-", "quick-session", "record-sheet-", "release-build-",
          "mm-data-", "mtf-parity-", "validation-", "code-formatting-",
          "storybook-", "hex-coordinate-", "terrain-", "starmap-",
          "tactical-map-">>]>>

\* the category of a spec name: the first whose keywords hold one that is
\* part of the name, OTHER if there is none
RECURSIVE CategoryFrom(_, _)
CategoryFrom(spec_name, i) ==
    IF i > Len(categories) THEN "OTHER"
    ELSE IF \E k \in DOMAIN categories[i].keywords :
                Contains(spec_name, categories[i].keywords[k])
         THEN categories[i].cat
         ELSE CategoryFrom(spec_name, i + 1)

\* spec_name.split("-")[0]
RECURSIVE FirstPart(_)
FirstPart(s) ==
    IF s = "" \/ CharAt(s, 1) = "-" THEN ""
    ELSE CharAt(s, 1) \o FirstPart(SubSeq(s, 2, Len(s)))

search_patterns(spec_name) ==
    <<spec_name, replace(spec_name, "-", "_"), replace(spec_name, "-", ""),
      FirstPart(spec_name)>>

\* the search for an implementation: some pattern is part of the name of a
\* .ts file or of the name of its directory
FoundImpl(spec_name, files) ==
    \E i \in DOMAIN search_patterns(spec_name) : \E f \in files :
        \/ Contains(f.name, search_patterns(spec_name)[i])
        \/ Contains(f.parent, search_patterns(spec_name)[i])

\* a directory without a spec.md
NoSpecFile == "<no spec.md>"

\* the spec directories, in sorted order
SpecDirs == <<"armor-system", "campaign-core", "weapon-system", "zz-notes">>

\* what a spec.md holds
SpecContents ==
    {"# Purpose\nTBD - created by archiving change add-x. Update after archive.\n",
     "# Purpose\nStatus: Draft\n",
     NoSpecFile}

\* the .ts files under src
SrcTrees ==
    {{},
     {[name |-> "campaign.ts", parent |-> "lib"]},
     {[name |-> "index.ts", parent |-> "weapon-system"],
      [name |-> "ArmorSystem.ts", parent |-> "armor_system"]}}

\* the names of seq that are keys of d, in the order of seq
RECURSIVE KeysInOrder(_, _)
KeysInOrder(seq, d) ==
    IF seq = <<>> THEN <<>>
    ELSE (IF Head(seq) \in DOMAIN d THEN <<Head(seq)>> ELSE <<>>)
         \o KeysInOrder(Tail(seq), d)

ReportInit ==
    /\ specs_dir \in [{SpecDirs[i] : i \in DOMAIN SpecDirs} -> SpecContents]
    /\ src_files \in SrcTrees
    /\ specs = <<>>
    /\ by_status = <<>>
    /\ by_category = <<>>
    /\ phase = "read"
    /\ pending = SpecDirs
    /\ value = "" /\ year = 0 /\ fn = "none" /\ result = "" /\ model = ""
    /\ tables = LoadedTables /\ calls = NoCalls /\ returned = {}
    /\ FixerIdle

\* one round of the loop that reads the specs; a directory without spec.md
\* is passed over
ReadSpec ==
    /\ phase = "read"
    /\ pending # <<>>
    /\ LET spec_name == Head(pending)
           content == specs_dir[spec_name]
           info == [is_tbd |-> Contains(content, "TBD - created by archiving"),
                    is_draft |-> Contains(content, "Status") /\ Contains(content, "Draft"),
                    found_impl |-> FoundImpl(spec_name, src_files),
                    category |-> CategoryFrom(spec_name, 1)]
       IN  specs' = IF content = NoSpecFile THEN specs ELSE (spec_name :> info) @@ specs
    /\ pending' = Tail(pending)
    /\ UNCHANGED <<specs_dir, src_files, by_status, by_category, phase,
                   normaliserVars, fixerVars>>

\* every directory is read: the two dicts are made and the classifying loop
\* starts over the items of specs
StartAnalysis ==
    /\ phase = "read"
    /\ pending = <<>>
    /\ phase' = IF DOMAIN specs = {} THEN "report" ELSE "analyze"
    /\ pending' = KeysInOrder(SpecDirs, specs)
    /\ UNCHANGED <<specs_dir, src_files, specs, by_status, by_category,
                   normaliserVars, fixerVars>>

\* by_category's default_factory
NoCounts == [IMPLEMENTED |-> 0, NOT_IMPLEMENTED |-> 0, TBD |-> 0]

\* d[k] of a defaultdict
DefaultGet(d, k, default) == IF k \in DOMAIN d THEN d[k] ELSE default

\* the status a spec is listed under in by_status
StatusOf(info) ==
    IF info.is_tbd THEN "TBD"
    ELSE IF info.found_impl THEN "IMPLEMENTED"
    ELSE "NOT_IMPLEMENTED"

\* the counter of by_category a spec adds to
CounterOf(info) ==
    IF info.found_impl THEN "IMPLEMENTED"
    ELSE IF info.is_tbd THEN "TBD"
    ELSE "NOT_IMPLEMENTED"

\* one round of the classifying loop
ClassifySpec ==
    /\ phase = "analyze"
    /\ pending # <<>>
    /\ LET spec_name == Head(pending)
           info == specs[spec_name]
           status == StatusOf(info)
           stats == DefaultGet(by_category, info.category, NoCounts)
       IN  /\ by_status' = (status :> Append(DefaultGet(by_status, status, <<>>), spec_name))
                             @@ by_status
           /\ by_category' = (info.category :> [stats EXCEPT ![CounterOf(info)] = @ + 1])
                               @@ by_category
    /\ pending' = Tail(pending)
    /\ phase' = IF Tail(pending) = <<>> THEN "report" ELSE phase
    /\ UNCHANGED <<specs_dir, src_files, specs, normaliserVars, fixerVars>>

\* the three statuses the report reads from by_status
Statuses == {"IMPLEMENTED", "NOT_IMPLEMENTED", "TBD"}

\* the report: reading by_status[...] makes the missing lists
PrintReport ==
    /\ phase = "report"
    /\ by_status' = [st \in Statuses \cup DOMAIN by_status |->
                        DefaultGet(by_status, st, <<>>)]
    /\ phase' = "done"
    /\ UNCHANGED <<specs_dir, src_files, specs, by_category, pending,
                   normaliserVars, fixerVars>>

ReportNext ==
    \/ ReadSpec
    \/ StartAnalysis
    \/ ClassifySpec
    \/ PrintReport

ReportSpec == ReportInit /\ [][ReportNext]_vars

-----------------------------------------------------------------------------
(* Properties                                                              *)

StringFns == {"map_tech_base", "map_rules_level", "map_engine_type", "map_gyro_type",
              "map_cockpit_type", "map_structure_type", "map_armor_type",
              "map_heat_sink_type", "map_mech_location", "map_mech_config",
              "map_unit_type"}

TypeOK ==
    /\ fn \in StringFns \cup {"none", "map_year_to_era", "get_era_folder_name"}
    /\ value \in RawValues
    /\ year \in Years

\* C1: every string mapping function is total: whatever the input (the empty
\* string, a string that is no alias and holds no keyword), the call ends in
\* one returned string and does not raise.
C1_Total ==
    fn \in StringFns => (result \in STRING /\ result # KeyError)

\* a digit that is no key of RULES_LEVEL_MAP takes the .get default
C1_Witness ==
    fn = "map_rules_level" /\ value = "7" /\ result = "STANDARD"

\* the enumerations the interface declares; where it names none, the values of
\* the category's alias table
DeclaredEnum(f) ==
    CASE f = "map_tech_base" -> {"INNER_SPHERE", "CLAN", "MIXED", "BOTH"}
      [] f = "map_rules_level" ->
             {"INTRODUCTORY", "STANDARD", "ADVANCED", "EXPERIMENTAL", "UNOFFICIAL"}
      [] f = "map_engine_type" ->
             {"FUSION", "XL", "CLAN_XL", "LIGHT", "COMPACT", "XXL", "CLAN_XXL", "ICE",
              "FUEL_CELL", "FISSION"}
      [] f = "map_gyro_type" ->
             {"STANDARD", "XL", "COMPACT", "HEAVY_DUTY", "SUPERHEAVY", "NONE"}
      [] f = "map_mech_config" -> {"Biped", "Quad", "Tripod", "LAM", "QuadVee"}
      [] f = "map_cockpit_type" -> Values(COCKPIT_TYPE_MAP)
      [] f = "map_structure_type" -> Values(STRUCTURE_TYPE_MAP)
      [] f = "map_armor_type" -> Values(ARMOR_TYPE_MAP)
      [] f = "map_heat_sink_type" -> Values(HEAT_SINK_TYPE_MAP)
      [] f = "map_unit_type" -> Values(UNIT_TYPE_MAP)

\* the closed location set
LocationSet == Values(MECH_LOCATION_MAP) \cup Values(ARMOR_LOCATION_KEY_MAP)

\* the trimmed input and its upper-cased form, as the functions see them
Clean == strip(value)
Upper == upper(strip(value))

ContainsAny(s, subs) == \E sub \in subs : Contains(s, sub)

\* the upper-cased input holds both substrings
HasBoth(a, b) == Contains(Upper, a) /\ Contains(Upper, b)

\* C2: for every category except location the returned value is a member of
\* the category's declared enumeration; the cockpit enumeration has 14 members.
C2_ClosedRange ==
    /\ fn \in StringFns \ {"map_mech_location"} => result \in DeclaredEnum(fn)
    /\ fn = "map_cockpit_type" => Cardinality(DeclaredEnum(fn)) = 14

\* an unknown unit type ends in the default, a member of the enumeration
C2_Witness ==
    /\ fn = "map_unit_type" /\ value = "Turret"
    /\ Clean \notin DOMAIN UNIT_TYPE_MAP
    /\ result = "BattleMech"

\* C3: map_mech_location returns a member of the closed location set when the
\* trimmed input is a key of MECH_LOCATION_MAP or its lower-cased form is a key
\* of ARMOR_LOCATION_KEY_MAP; every other input comes back upper-cased with
\* spaces replaced by underscores, whether or not that is a location.
C3_Location ==
    fn = "map_mech_location" =>
        IF Clean \in DOMAIN MECH_LOCATION_MAP \/ lower(Clean) \in DOMAIN ARMOR_LOCATION_KEY_MAP
        THEN result \in LocationSet
        ELSE result = replaceChar(upper(Clean), " ", "_")

\* map_mech_location("Turret") == "TURRET", which is no location
C3_Witness ==
    /\ fn = "map_mech_location" /\ value = "Turret"
    /\ result = "TURRET"
    /\ result \notin LocationSet

\* C4: a compound test is made before the single-substring test it refines, so
\* an input holding both substrings of a compound test never gets the generic
\* token; "Heavy Ferro-Fibrous Armor" is HEAVY_FERRO_FIBROUS.
C4_Priority ==
    /\ (fn = "map_armor_type" /\ (HasBoth("HEAVY", "FERRO") \/ HasBoth("LIGHT", "FERRO")
                                      \/ HasBoth("FERRO", "CLAN")))
           => result # "FERRO_FIBROUS"
    /\ (fn = "map_armor_type" /\ HasBoth("HEAVY", "INDUSTRIAL")) => result # "INDUSTRIAL"
    /\ (fn = "map_armor_type" /\ value = "Heavy Ferro-Fibrous Armor")
           => result = "HEAVY_FERRO_FIBROUS"
    /\ (fn = "map_structure_type" /\ (HasBoth("ENDO", "CLAN") \/ HasBoth("ENDO", "COMPOSITE")))
           => result # "ENDO_STEEL"
    /\ (fn = "map_engine_type" /\ HasBoth("XL", "CLAN")) => result # "XL"
    /\ (fn = "map_heat_sink_type" /\ HasBoth("DOUBLE", "CLAN")) => result # "DOUBLE"

\* two keywords that are no alias: the fallback list decides, compound test first
C4_Witness ==
    /\ fn = "map_armor_type" /\ value = "Heavy Ferro"
    /\ Clean \notin DOMAIN ARMOR_TYPE_MAP
    /\ result = "HEAVY_FERRO_FIBROUS"

\* the fallback predicates of each category, as tests on the upper-cased input
MatchesFallback(f) ==
    CASE f = "map_armor_type" ->
             \/ ContainsAny(Upper, {"STEALTH", "REACTIVE", "REFLECTIVE", "LASER-REFLECT",
                                    "HARDENED", "FERRO", "PRIMITIVE", "COMMERCIAL",
                                    "INDUSTRIAL"})
             \/ Contains(Upper, "IMPACT") /\ Contains(Upper, "RESIST")
      [] f = "map_structure_type" ->
             ContainsAny(Upper, {"ENDO", "REINFORCED", "COMPOSITE", "INDUSTRIAL"})
      [] f = "map_gyro_type" ->
             ContainsAny(Upper, {"SUPERHEAVY", "SUPER HEAVY", "XL", "EXTRA", "COMPACT",
                                 "HEAVY"})
      [] f = "map_engine_type" ->
             ContainsAny(Upper, {"XXL", "XL", "LIGHT", "COMPACT", "ICE", "COMBUSTION",
                                 "FUEL", "CELL", "FISSION"})
      [] f = "map_heat_sink_type" -> ContainsAny(Upper, {"DOUBLE", "COMPACT", "LASER"})
      [] OTHER -> FALSE

AliasTable(f) ==
    CASE f = "map_tech_base" -> TECH_BASE_MAP
      [] f = "map_rules_level" -> RULES_LEVEL_MAP
      [] f = "map_engine_type" -> ENGINE_TYPE_MAP
      [] f = "map_gyro_type" -> GYRO_TYPE_MAP
      [] f = "map_cockpit_type" -> COCKPIT_TYPE_MAP
      [] f = "map_structure_type" -> STRUCTURE_TYPE_MAP
      [] f = "map_armor_type" -> ARMOR_TYPE_MAP
      [] f = "map_heat_sink_type" -> HEAT_SINK_TYPE_MAP
      [] f = "map_mech_location" -> MECH_LOCATION_MAP
      [] f = "map_mech_config" -> MECH_CONFIG_MAP
      [] f = "map_unit_type" -> UNIT_TYPE_MAP

DefaultOf(f) ==
    CASE f \in {"map_armor_type", "map_structure_type", "map_gyro_type",
                "map_cockpit_type"} -> "STANDARD"
      [] f = "map_engine_type" -> "FUSION"
      [] f = "map_unit_type" -> "BattleMech"
      [] f = "map_mech_config" -> "Biped"

\* C5: an input that is no alias key and matches no fallback predicate gets the
\* category's fixed default: STANDARD (armor, structure, gyro, cockpit), FUSION
\* (engine), BattleMech (unit type), Biped (mech configuration).
C5_Default ==
    ( /\ fn \in {"map_armor_type", "map_structure_type", "map_gyro_type",
                  "map_cockpit_type", "map_engine_type", "map_unit_type",
                  "map_mech_config"}
      /\ Clean \notin DOMAIN AliasTable(fn)
      /\ ~MatchesFallback(fn) )
        => result = DefaultOf(fn)

\* an engine name with none of the keywords
C5_Witness ==
    /\ fn = "map_engine_type" /\ value = "Unknown Thing"
    /\ Clean \notin DOMAIN ENGINE_TYPE_MAP /\ ~MatchesFallback(fn)
    /\ result = "FUSION"

\* the heat-sink input C6 is about: no alias, none of DOUBLE, COMPACT, LASER
NoHeatSinkMatch ==
    /\ fn = "map_heat_sink_type"
    /\ Clean \notin DOMAIN HEAT_SINK_TYPE_MAP
    /\ ~ContainsAny(Upper, {"DOUBLE", "COMPACT", "LASER"})

\* C6 as stated: map_heat_sink_type returns STANDARD for an input that is no
\* key of HEAT_SINK_TYPE_MAP and holds none of DOUBLE, COMPACT, LASER.
C6_DefaultStandard == NoHeatSinkMatch => result = "STANDARD"

\* C6, amended: map_heat_sink_type returns SINGLE for an input that is no key
\* of HEAT_SINK_TYPE_MAP and holds none of DOUBLE, COMPACT, LASER.
C6_DefaultSingle == NoHeatSinkMatch => result = "SINGLE"

C6_Witness ==
    NoHeatSinkMatch /\ value = "Unknown Thing" /\ result = "SINGLE"

\* C7: the exact alias lookup comes before the fallback tests: a key of a
\* category's alias table (whitespace around it or not) maps to its table
\* value, so "XL Engine" and "XL Engine(IS)" are both XL and "Extra-Light
\* Engine" is XL although it holds LIGHT.
C7_AliasFirst ==
    /\ (fn \in StringFns /\ Clean \in DOMAIN AliasTable(fn))
          => result = AliasTable(fn)[Clean]
    /\ (fn = "map_mech_location" /\ Clean \in DOMAIN ARMOR_LOCATION_KEY_MAP)
          => result = ARMOR_LOCATION_KEY_MAP[Clean]
    /\ (fn = "map_engine_type"
          /\ value \in {"XL Engine", "XL Engine(IS)", "Extra-Light Engine"})
          => result = "XL"

\* an alias whose upper-cased form would match the LIGHT test of the fallback
C7_Witness ==
    /\ fn = "map_engine_type" /\ value = "Extra-Light Engine"
    /\ Contains(Upper, "LIGHT")
    /\ result = "XL"

ErasReturned == {map_year_to_era(y) : y \in Years}

\* the years that get the era of the year of this call form one interval: the
\* era changes at most once below the year and at most once above it
EraIsInterval ==
    /\ map_year_to_era(year - 1) # result
          => \A y \in Years : y < year => map_year_to_era(y) # result
    /\ map_year_to_era(year + 1) # result
          => \A y \in Years : y > year => map_year_to_era(y) # result

\* C9 as stated: the years fall into seven contiguous intervals, one era token
\* each, 7 tokens in all.
C9_SevenEras ==
    fn = "map_year_to_era" =>
        /\ result \in ErasReturned
        /\ EraIsInterval
        /\ Cardinality(ErasReturned) = 7

\* C9, amended: the years fall into eight contiguous intervals, one era token
\* each, 8 tokens in all.
C9_EightEras ==
    fn = "map_year_to_era" =>
        /\ result \in ErasReturned
        /\ EraIsInterval
        /\ Cardinality(ErasReturned) = 8

\* the first year of the seventh interval: the sixth era ends, two more follow
C9_Witness ==
    /\ fn = "map_year_to_era" /\ year = 3081
    /\ map_year_to_era(year - 1) = "CIVIL_WAR"
    /\ result = "DARK_AGE"
    /\ map_year_to_era(3152) = "ILCLAN"

\* the canonical tokens of a category: the values of its alias tables
CanonicalOf(f) ==
    IF f = "map_mech_location" THEN LocationSet ELSE Values(AliasTable(f))

\* C10: a canonical token that is also a key of its category's alias table
\* maps to itself (ICE for engines, QuadVee for configurations, Battle Armor
\* for unit types).
C10_Idempotent ==
    (fn \in StringFns /\ value \in CanonicalOf(fn) /\ value \in DOMAIN AliasTable(fn))
        => result = value

C10_Witness ==
    /\ fn = "map_unit_type" /\ value = "Battle Armor"
    /\ value \in CanonicalOf(fn) /\ value \in DOMAIN AliasTable(fn)
    /\ result = "Battle Armor"

\* whitespace put before and after an input
Pads == {"", " ", "\t\n"}

\* C11: every string mapping function trims the input first: with any
\* whitespace put before and after the input the function returns what it
\* returns for the input itself, on the alias path and on the fallback path.
C11_Trim ==
    fn \in StringFns =>
        \A w1 \in Pads, w2 \in Pads : MapOf(fn, w1 \o value \o w2) = result

\* an alias met with whitespace on both sides
C11_Witness ==
    /\ fn = "map_tech_base" /\ value = "  Clan\t"
    /\ value # Clean /\ Clean \in DOMAIN TECH_BASE_MAP
    /\ result = "CLAN"

\* the characters no slug holds, and the two more generate_id_from_name drops
SlugBanned == {" ", "/", "(", ")", "'", "\""}
SlugBannedInId == {".", ","}

\* lower-case, none of the banned characters, no run of dashes, no dash at
\* either end
IsSlug(s) ==
    /\ lower(s) = s
    /\ CharSet(s) \cap SlugBanned = {}
    /\ ~Contains(s, "--")
    /\ s # "" => (CharAt(s, 1) # "-" /\ CharAt(s, Len(s)) # "-")

\* C12: the slugs of generate_id_from_name and normalize_equipment_id are
\* lower-case, hold no space, slash, bracket or quote, no two dashes in a row
\* and no dash at either end; generate_id_from_name also drops "." and ",".
\* ("Atlas", "AS7-D") gives "atlas-as7-d", "Gauss Rifle (Clan)" gives
\* "gauss-rifle-clan".
C12_Slug ==
    /\ fn \in {"generate_id_from_name", "normalize_equipment_id"} => IsSlug(result)
    /\ fn = "generate_id_from_name" => CharSet(result) \cap SlugBannedInId = {}
    /\ (fn = "generate_id_from_name" /\ value = "Atlas" /\ model = "AS7-D")
          => result = "atlas-as7-d"
    /\ (fn = "normalize_equipment_id" /\ value = "Gauss Rifle (Clan)")
          => result = "gauss-rifle-clan"

\* a space on either side of the joining dash gives three dashes to collapse
C12_Witness ==
    /\ fn = "generate_id_from_name" /\ value = "Atlas " /\ model = " -- x"
    /\ result = "atlas-x"

C16_DocumentedRanges ==
    fn = "map_year_to_era" =>
        /\ year \in 2005..2570 => result = "AGE_OF_WAR"
        /\ year \in 2571..2780 => result = "STAR_LEAGUE"
        /\ year \in 3050..3061 => result = "CLAN_INVASION"
        /\ year \in 3062..3067 => result = "CIVIL_WAR"
        /\ year \in 3086..3150 => result = "DARK_AGE"
        /\ year >= 3151 => result = "ILCLAN"

\* the number a folder name starts with, up to its first dash
RECURSIVE FolderPrefixFrom(_, _)
FolderPrefixFrom(s, n) ==
    IF s = "" \/ ~isdigit(CharAt(s, 1)) THEN n
    ELSE FolderPrefixFrom(SubSeq(s, 2, Len(s)), 10 * n + IndexIn(CharAt(s, 1), Digits) - 1)

FolderPrefix(s) == FolderPrefixFrom(s, 0)

\* C17: for every year, get_era_folder_name(map_year_to_era(year)) is a
\* folder of the era table, never the default "99-unknown", and its numeric
\* prefix is chronological: an earlier year never has a larger prefix.
C17_EraFolder ==
    fn = "get_era_folder_name" =>
        /\ result \in Values(era_folders)
        /\ result # "99-unknown"
        /\ \A y \in Years :
              y <= year => FolderPrefix(get_era_folder_name(map_year_to_era(y)))
                             <= FolderPrefix(result)

\* the first year of the last era lands in the last folder
C17_Witness ==
    fn = "get_era_folder_name" /\ year = 3152 /\ result = "7-ilclan"

\* the lines of a text, each without its newline
RECURSIVE SplitLines(_)
SplitLines(s) ==
    IF s = "" THEN <<>>
    ELSE IF ~Contains(s, "\n") THEN <<s>>
    ELSE LET n == CHOOSE i \in 1..Len(s) :
                    CharAt(s, i) = "\n" /\ \A j \in 1..(i - 1) : CharAt(s, j) # "\n"
         IN  <<SubSeq(s, 1, n - 1)>> \o SplitLines(SubSeq(s, n + 1, Len(s)))

IsFence(line) == Len(strip(line)) >= 3 /\ SubSeq(strip(line), 1, 3) = Fence

\* the lines should_skip_line sets apart, a fence line opening and closing a
\* code block
RECURSIVE ProtectedFrom(_, _, _)
ProtectedFrom(lines, i, in_code_block) ==
    IF i > Len(lines) THEN <<>>
    ELSE (IF IsFence(lines[i]) \/ should_skip_line(lines[i], in_code_block)
          THEN <<lines[i]>> ELSE <<>>)
         \o ProtectedFrom(lines, i + 1, IF IsFence(lines[i]) THEN ~in_code_block
                                                             ELSE in_code_block)

ProtectedLines(content) == ProtectedFrom(SplitLines(content), 1, FALSE)

\* process_file has returned
Returned == pc = "idle" /\ process_file_result # "none"

\* C14: with dry_run set, process_file writes neither the target file nor a
\* backup, whatever the content and whatever files were processed before,
\* and still returns True exactly when the fixed content differs from the
\* original; files are written only when dry_run is false and the content
\* changed.
C14_DryRun ==
    /\ dry_run => DOMAIN disk = Files
    /\ (dry_run /\ Returned) => disk[file_path] = original_content
    /\ (dry_run /\ Returned)
          => (process_file_result = "True" <=> modified_content # original_content)
    /\ (Returned /\ disk[file_path] # original_content)
          => (~dry_run /\ modified_content # original_content)

\* C15: the fixer keeps the protected contexts as they are: text inside
\* fenced code blocks, lines starting with "//" and lines with an http:// or
\* https:// URL are the same in the content process_file produces as in the
\* content it read.
C15_ProtectedContexts ==
    pc # "fix_capitalizations"
        => ProtectedLines(modified_content) = ProtectedLines(original_content)

\* the number of specs the report prints for an overall status
OverallTotal(st) == Len(DefaultGet(by_status, st, <<>>))

\* the sum over the categories in S of the count of status st
RECURSIVE CategorySum(_, _)
CategorySum(S, st) ==
    IF S = {} THEN 0
    ELSE LET cat == CHOOSE c \in S : TRUE
         IN  by_category[cat][st] + CategorySum(S \ {cat}, st)

\* how many times a spec is listed in by_status
RECURSIVE TimesListed(_, _)
TimesListed(spec_name, S) ==
    IF S = {} THEN 0
    ELSE LET st == CHOOSE s \in S : TRUE
         IN  Cardinality({i \in DOMAIN by_status[st] : by_status[st][i] = spec_name})
               + TimesListed(spec_name, S \ {st})

\* C18: in the spec-coverage report every spec is counted in exactly one
\* overall status and in exactly one per-category status, and the overall
\* IMPLEMENTED, NOT_IMPLEMENTED and TBD totals each equal the sum over the
\* categories of the per-category count of the same status.
C18_TotalsAgree ==
    phase = "done" =>
        /\ \A spec_name \in DOMAIN specs : TimesListed(spec_name, DOMAIN by_status) = 1
        /\ \A cat \in DOMAIN by_category :
              by_category[cat].IMPLEMENTED + by_category[cat].NOT_IMPLEMENTED
                + by_category[cat].TBD
              = Cardinality({n \in DOMAIN specs : specs[n].category = cat})
        /\ \A st \in Statuses : OverallTotal(st) = CategorySum(DOMAIN by_category, st)

====
